---- MODULE Spec2Model ----
(***************************************************************************)
(* Model of `nix flake check` (CmdFlakeCheck::run, src/nix/flake.cc).      *)
(*                                                                         *)
(* The run walks the flake's outputs once (enumerateOutputs), hands each   *)
(* output to the dispatch callback, which forces it and calls the          *)
(* validator of its category.  Validators are lambdas with a try/catch     *)
(* that prefixes the error on the way out.  Derivations found under        *)
(* checks.<this system> and in app contexts are appended to drvPaths,      *)
(* which is handed to store->buildPaths once after the walk.               *)
(*                                                                         *)
(* The call stack is explicit: one frame per active lambda invocation.     *)
(* An exception is the variable err; it unwinds one frame per step, each   *)
(* catch block adding its prefix.                                          *)
(***************************************************************************)
EXTENDS Integers, Sequences, FiniteSets, TLC

VARIABLES
    build,      \* CmdFlakeCheck::build (false with --no-build)
    todo,       \* names of the outputs the loop of enumerateOutputs has not reached yet
    nOutputs,   \* number of attributes of the flake's `outputs` set
    nCalls,     \* number of times enumerateOutputs invoked its callback
    name,       \* the callback's parameter `name` (last output handed over)
    vOutput,    \* the callback's parameter `vOutput`: the output's value tree, with per-value force counts
    stack,      \* active lambda invocations, outermost first
    ret,        \* value returned by the last checkDerivation call
    drvPaths,   \* std::vector<StorePathWithOutputs> drvPaths
    warnings,   \* output names passed to warn()
    err,        \* the exception in flight (None when there is none)
    thrownAt,   \* the call stack at the moment the exception was thrown
    rejected,   \* position in vOutput of the attribute checkSystemName rejected
    phase,      \* "eval" | "done" | "failed"
    buildCalls, \* number of calls of store->buildPaths
    submitted,  \* argument of the buildPaths call
    expected,   \* build targets the outputs handed over so far declare (declarative, see Declared)
    sawBadSystem, \* some output handed over so far has a platform name without '-'
    wellFormed, \* every output handed over so far is a recognized, correctly shaped one
    hydra       \* per-run record of checkHydraJobs activity on the current output

vars == <<build, todo, nOutputs, nCalls, name, vOutput, stack, ret, drvPaths,
          warnings, err, thrownAt, rejected, phase, buildCalls, submitted,
          expected, sawBadSystem, wellFormed, hydra>>

----------------------------------------------------------------------------
(* Bounds *)

MaxOutputs == 2   \* attributes of the `outputs` set
MaxAttrs == 2     \* attributes of a per-platform / per-name set
MaxNodes == 4     \* values in a hydraJobs tree

None == [kind |-> "none"]

----------------------------------------------------------------------------
(* Strings that the code inspects character by character *)

ThisSystem == "x-l"   \* settings.thisSystem
SystemNames == {"x-l", "a-d", "bad"}

\* the characters of the attribute names used at platform positions
Chars(s) ==
    CASE s = "x-l" -> <<"x", "-", "l">>
      [] s = "a-d" -> <<"a", "-", "d">>
      [] s = "bad" -> <<"b", "a", "d">>
      [] OTHER -> <<"u">>

\* std::string::find(char): index of the first occurrence, 0 for npos
Find(cs, c) ==
    IF \E k \in 1..Len(cs) : cs[k] = c
    THEN CHOOSE k \in 1..Len(cs) : cs[k] = c /\ \A m \in 1..(k-1) : cs[m] # c
    ELSE 0

\* fmt("%s.%s", a, b): attribute paths are token sequences joined by "."
Fmt2(a, b) == <<a, ".", b>>
Fmt3(a, b, c) == <<a, ".", b, ".", c>>

----------------------------------------------------------------------------
(* Values of the evaluator.  kind: "fail" (forcing throws), "string",      *)
(* "lambda", "attrs".  typ is the set's `type` attribute ("derivation",    *)
(* "app" or "").  nf counts the force operations applied to the value.     *)

StorePaths == {[name |-> "d1", drv |-> TRUE], [name |-> "d2", drv |-> TRUE],
               [name |-> "src", drv |-> FALSE]}
D1 == [name |-> "d1", drv |-> TRUE]
D2 == [name |-> "d2", drv |-> TRUE]
Src == [name |-> "src", drv |-> FALSE]

NoFun == [matchAttrs |-> FALSE, ellipsis |-> FALSE, arg |-> "", body |-> "none",
          bodyMatchAttrs |-> FALSE, bodyArg |-> ""]

Node(k, t, as, p, c, f) ==
    [kind |-> k, typ |-> t, attrs |-> as, drvPath |-> p, context |-> c, fun |-> f, nf |-> 0]

Fail == Node("fail", "", <<>>, Src, <<>>, NoFun)
Str == Node("string", "", <<>>, Src, <<>>, NoFun)
Attrs(as) == Node("attrs", "", as, Src, <<>>, NoFun)
Attr(n, v) == [name |-> n, value |-> v]
\* a derivation is a set with type = "derivation"
Drv(p) == Node("attrs", "derivation", <<Attr("type", Str)>>, p, <<>>, NoFun)
\* an app is a set with type = "app" and a program string carrying a context
AppV(c) == Node("attrs", "app", <<Attr("type", Str)>>, Src, c, NoFun)
Lambda(f) == Node("lambda", "", <<>>, Src, <<>>, f)

\* elements of a string context, by their encoding: "!<out>!<path>", "=<path>", "<path>"
Ctx(tag, out, p) == [tag |-> tag, out |-> out, path |-> p]

----------------------------------------------------------------------------
(* The values the evaluator may produce for an output, per output name.    *)
(* The value of an output is drawn when enumerateOutputs hands it to the   *)
(* callback; nothing of it is evaluated (nf = 0 everywhere) at that point. *)

EntryNames == <<"u", "v", "w", "x", "y", "z">>

\* a set whose attributes are named u, v, ... in iteration order
Named(vs) == Attrs([k \in 1..Len(vs) |-> Attr(EntryNames[k], vs[k])])

SeqsUpTo(S, n) == UNION {[1..k -> S] : k \in 0..n}

DistinctNames(as) == \A a, b \in 1..Len(as) : a # b => as[a].name # as[b].name

\* sets keyed by platform name: values from `good` under names with a '-',
\* the value `under` under the name without one
PerSystem(good, under) ==
    {Attrs(as) : as \in {s \in SeqsUpTo({Attr(n, v) : n \in {"x-l", "a-d"}, v \in good}
                                          \cup {Attr("bad", under)}, MaxAttrs) :
                          DistinctNames(s)}}

C1out == Ctx("!", "out", D1)
C1dev == Ctx("!", "dev", D1)
C2out == Ctx("!", "out", D2)
C1drv == Ctx("=", "", D1)
CSrc == Ctx("/", "", Src)

DrvSets == {Named(<<Drv(D1)>>), Named(<<Drv(D1), Drv(D2)>>), Named(<<Drv(D2), Str>>),
            Named(<<Fail>>)}
AppSets == {Named(<<AppV(<<C1out>>)>>),
            Named(<<AppV(<<C1dev, C1out>>), AppV(<<C1drv, C2out, CSrc>>)>>), Str}
DrvLeaves == {Drv(D1), Drv(D2), Str}
AppLeaves == {AppV(<<C1out>>), AppV(<<C1drv, C2out, CSrc>>), Drv(D1)}

OverlayFun(ma, a, b, bma, ba) ==
    Lambda([matchAttrs |-> ma, ellipsis |-> FALSE, arg |-> a, body |-> b,
            bodyMatchAttrs |-> bma, bodyArg |-> ba])
Overlays == {OverlayFun(FALSE, "final", "lambda", FALSE, "prev"),
             OverlayFun(FALSE, "x", "lambda", FALSE, "y"),
             OverlayFun(TRUE, "", "lambda", FALSE, "prev"),
             OverlayFun(FALSE, "final", "lambda", TRUE, ""),
             OverlayFun(FALSE, "final", "other", FALSE, ""),
             Str}

SomeOverlays == {OverlayFun(FALSE, "final", "lambda", FALSE, "prev"),
                 OverlayFun(FALSE, "x", "lambda", FALSE, "y"),
                 OverlayFun(FALSE, "final", "lambda", TRUE, "")}

ModuleFun(ma, e) ==
    Lambda([matchAttrs |-> ma, ellipsis |-> e, arg |-> "", body |-> "other",
            bodyMatchAttrs |-> FALSE, bodyArg |-> ""])
\* what an attribute of a module set may hold: a string, a failing thunk, a
\* function, a set with a failing thunk inside
OptionValues == {Str, Fail, ModuleFun(FALSE, FALSE), Named(<<Fail>>)}
Modules == {ModuleFun(TRUE, TRUE), ModuleFun(TRUE, FALSE), ModuleFun(FALSE, FALSE), Str}
              \cup {Named(vs) : vs \in SeqsUpTo(OptionValues, MaxAttrs)}

SomeModules == {ModuleFun(TRUE, TRUE), ModuleFun(TRUE, FALSE), Named(<<Str>>),
                Named(<<Str, Fail>>)}

Config(top) == Attrs(<<Attr("config", Attrs(<<Attr("system", Attrs(<<Attr("build",
                   Attrs(<<Attr("toplevel", top)>>))>>))>>))>>)
Configs == {Config(Drv(D1)), Config(Attrs(<<>>)), Config(Fail),
            Attrs(<<Attr("config", Attrs(<<>>))>>), Attrs(<<Attr("config", Str)>>)}

RECURSIVE Size(_), SizeAll(_)
Size(t) == IF t.typ # "" THEN 1 ELSE 1 + SizeAll(t.attrs)
SizeAll(as) == IF as = <<>> THEN 0 ELSE Size(as[1].value) + SizeAll(Tail(as))

\* job trees of at most n values: leaves are derivations or strings
RECURSIVE Trees(_), Forests(_, _)
Trees(n) ==
    IF n <= 0 THEN {}
    ELSE {Drv(D1), Str} \cup UNION {{Named(f) : f \in Forests(n - 1, k)} : k \in 0..(n - 1)}
Forests(n, k) ==
    IF k = 0 THEN {<<>>}
    ELSE UNION {{<<t>> \o f : f \in Forests(n - Size(t), k - 1)} : t \in Trees(n - (k - 1))}

SystemCategories == {"checks", "packages", "apps", "defaultPackage", "devShell",
                     "defaultApp", "legacyPackages"}
TwoLevel == {"checks", "packages", "apps"}
NamedCategories == {"overlays", "nixosModules", "nixosConfigurations"}
DirectCategories == {"overlay", "nixosModule", "hydraJobs"}
Categories == SystemCategories \cup NamedCategories \cup DirectCategories
OutputNames == Categories \cup {"foo"}

Values(n) ==
    {Fail, Str} \cup
    CASE n \in {"checks", "packages"} -> PerSystem(DrvSets, Named(<<Drv(D1)>>))
      [] n = "apps" -> PerSystem(AppSets, Named(<<AppV(<<C1out>>)>>))
      [] n \in {"defaultPackage", "devShell"} -> PerSystem(DrvLeaves, Drv(D1))
      [] n = "defaultApp" -> PerSystem(AppLeaves, AppV(<<C1out>>))
      [] n = "legacyPackages" -> PerSystem({Attrs(<<>>), Fail}, Named(<<Drv(D1)>>))
      [] n = "overlay" -> Overlays
      [] n = "overlays" -> {Named(vs) : vs \in SeqsUpTo(SomeOverlays, MaxAttrs)}
      [] n = "nixosModule" -> Modules
      [] n = "nixosModules" -> {Named(vs) : vs \in SeqsUpTo(SomeModules, MaxAttrs)}
      [] n = "nixosConfigurations" -> {Named(vs) : vs \in SeqsUpTo(Configs, MaxAttrs)}
      [] n = "hydraJobs" -> Trees(MaxNodes)
      [] OTHER -> {Attrs(<<>>), Drv(D1)}

ValueCount == [n \in OutputNames |-> Cardinality(Values(n))]

----------------------------------------------------------------------------
(* Evaluator primitives *)

RECURSIVE NodeAt(_, _)
NodeAt(t, r) == IF r = <<>> THEN t ELSE NodeAt(t.attrs[Head(r)].value, Tail(r))

\* one force operation on the value at position r
RECURSIVE Bump(_, _)
Bump(t, r) ==
    IF r = <<>> THEN [t EXCEPT !.nf = @ + 1]
    ELSE [t EXCEPT !.attrs[Head(r)].value = Bump(@, Tail(r))]

RECURSIVE BumpAll(_, _)
BumpAll(t, rs) == IF rs = <<>> THEN t ELSE BumpAll(Bump(t, Head(rs)), Tail(rs))

\* outcome of state->forceValue(v)
ForceValue(n) == IF n.kind = "fail" THEN "eval" ELSE "none"

\* outcome of state->forceAttrs(v)
ForceAttrs(n) ==
    IF n.kind = "fail" THEN "eval" ELSE IF n.kind # "attrs" THEN "type" ELSE "none"

\* state->isDerivation(v)
IsDerivation(n) == n.kind = "attrs" /\ n.typ = "derivation"

\* outcome of getDerivation(*state, v, false): forces v, no DrvInfo unless it is a derivation
GetDerivation(n) ==
    IF n.kind = "fail" THEN [err |-> "eval", found |-> FALSE]
    ELSE [err |-> "none", found |-> IsDerivation(n)]

\* outcome of constructing App(*state, v)
App(n) ==
    IF ForceAttrs(n) # "none" THEN [err |-> ForceAttrs(n), context |-> <<>>]
    ELSE IF n.typ # "app" THEN [err |-> "app", context |-> <<>>]
    ELSE [err |-> "none", context |-> n.context]

\* decodeContext(s): (path, output name)
DecodeContext(c) == IF c.tag = "!" THEN <<c.path, c.out>> ELSE <<c.path, "">>

\* StorePath::isDerivation()
PathIsDerivation(p) == p.drv

\* StorePathWithOutputs built from a path alone
WithOutputs(p) == [path |-> p, outputs |-> {}]

AttrIndex(n, a) ==
    IF \E k \in 1..Len(n.attrs) : n.attrs[k].name = a
    THEN CHOOSE k \in 1..Len(n.attrs) : n.attrs[k].name = a
    ELSE 0

\* findAlongAttrPath(state, "config.system.build.toplevel", bindings, v) from position r:
\* every set on the way is forced; the selected value is returned unevaluated
RECURSIVE FindAlongAttrPath(_, _, _)
FindAlongAttrPath(t, r, ns) ==
    IF ns = <<>> THEN [err |-> "none", ref |-> r, forced |-> <<>>]
    ELSE LET n == NodeAt(t, r)
             k == AttrIndex(n, Head(ns))
         IN IF n.kind = "fail" THEN [err |-> "eval", ref |-> r, forced |-> <<r>>]
            ELSE IF n.kind # "attrs" THEN [err |-> "type", ref |-> r, forced |-> <<r>>]
            ELSE IF k = 0 THEN [err |-> "missing", ref |-> r, forced |-> <<r>>]
            ELSE LET w == FindAlongAttrPath(t, r \o <<k>>, Tail(ns))
                 IN [w EXCEPT !.forced = <<r>> \o @]

ToplevelPath == <<"config", "system", "build", "toplevel">>

\* faulty variant: the separator looked for is '_'
CheckSystemNameUnderscore(system) == Find(Chars(system), "_") = 0

\* checkSystemName: TRUE when it throws
CheckSystemName(system) == Find(Chars(system), "-") = 0

----------------------------------------------------------------------------
(* What an output declares, read off its value without running anything.   *)

Range(q) == {q[k] : k \in 1..Len(q)}

HasDash(n) == \E k \in 1..Len(Chars(n)) : Chars(n)[k] = "-"
PlainSet(v) == v.kind = "attrs" /\ v.typ = ""
IsDrvValue(v) == v.kind = "attrs" /\ v.typ = "derivation"
IsAppValue(v) == v.kind = "attrs" /\ v.typ = "app"
IsTarget(c) == c.tag = "!" /\ c.out # "" /\ c.path.drv

Each(v, P(_)) == \A k \in 1..Len(v.attrs) : P(v.attrs[k].value)
GoodSystems(v) == PlainSet(v) /\ \A k \in 1..Len(v.attrs) : HasDash(v.attrs[k].name)
SetOfDrvs(v) == PlainSet(v) /\ Each(v, IsDrvValue)
SetOfApps(v) == PlainSet(v) /\ Each(v, IsAppValue)
GoodOverlay(v) ==
    /\ v.kind = "lambda" /\ ~v.fun.matchAttrs /\ v.fun.arg = "final"
    /\ v.fun.body = "lambda" /\ ~v.fun.bodyMatchAttrs /\ v.fun.bodyArg = "prev"
Evaluates(v) == v.kind # "fail"
GoodModule(v) ==
    \/ v.kind = "lambda" /\ v.fun.matchAttrs /\ v.fun.ellipsis
    \/ v.kind = "attrs" /\ Each(v, Evaluates)
GoodConfig(v) == \E top \in {Drv(D1), Drv(D2)} : v = Config(top)
RECURSIVE GoodJobs(_)
GoodJobs(v) ==
    PlainSet(v) /\ \A k \in 1..Len(v.attrs) :
        IsDrvValue(v.attrs[k].value) \/ GoodJobs(v.attrs[k].value)

WellFormed(n, v) ==
    CASE n \in {"checks", "packages"} -> GoodSystems(v) /\ Each(v, SetOfDrvs)
      [] n = "apps" -> GoodSystems(v) /\ Each(v, SetOfApps)
      [] n \in {"defaultPackage", "devShell"} -> GoodSystems(v) /\ Each(v, IsDrvValue)
      [] n = "defaultApp" -> GoodSystems(v) /\ Each(v, IsAppValue)
      [] n = "legacyPackages" -> GoodSystems(v)
      [] n = "overlay" -> GoodOverlay(v)
      [] n = "overlays" -> PlainSet(v) /\ Each(v, GoodOverlay)
      [] n = "nixosModule" -> GoodModule(v)
      [] n = "nixosModules" -> PlainSet(v) /\ Each(v, GoodModule)
      [] n = "nixosConfigurations" -> PlainSet(v) /\ Each(v, GoodConfig)
      [] n = "hydraJobs" -> GoodJobs(v)
      [] OTHER -> FALSE

\* the build targets of the apps in the set v
AppTargets(v) ==
    {WithOutputs(c.path) : c \in {d \in UNION {Range(v.attrs[k].value.context) : k \in 1..Len(v.attrs)} :
                                   IsTarget(d)}}

\* the build targets an output declares for the run
Declared(n, v) ==
    CASE n = "checks" ->
           {WithOutputs(w.drvPath) :
              w \in {x \in UNION {Range([m \in 1..Len(v.attrs[k].value.attrs) |->
                                            v.attrs[k].value.attrs[m].value]) :
                                    k \in {q \in 1..Len(v.attrs) : v.attrs[q].name = ThisSystem}} :
                       IsDrvValue(x)}}
      [] n = "apps" -> UNION {AppTargets(v.attrs[k].value) : k \in 1..Len(v.attrs)}
      [] n = "defaultApp" -> AppTargets(v)
      [] OTHER -> {}

\* the output has a platform-keyed attribute whose name has no '-'
BadSystem(n, v) ==
    n \in SystemCategories /\ \E k \in 1..Len(v.attrs) : ~HasDash(v.attrs[k].name)

----------------------------------------------------------------------------
(* Call stack *)

Frame(fn, path, ref, pc) ==
    [fn |-> fn, attrPath |-> path, ref |-> ref, pc |-> pc, i |-> 1, j |-> 1]

Top == stack[Len(stack)]
Pop == SubSeq(stack, 1, Len(stack) - 1)
SetTop(f) == [stack EXCEPT ![Len(stack)] = f]
Call(caller, callee) == Append(SetTop(caller), callee)

\* the context frame a catch block of the invocation adds
Label(f) == [fn |-> f.fn, attrPath |-> f.attrPath]
Labels(st) == [k \in 1..Len(st) |-> Label(st[k])]

Error(k, a) == [kind |-> k, arg |-> a, frames |-> <<>>]

\* faulty variant: statements keep running while an exception is in flight
RunningThroughErrors == phase = "eval" /\ stack # <<>>

\* a lambda executes its next statement only while no exception is in flight
Running == phase = "eval" /\ err = None /\ stack # <<>>
InOutput(pc) == Running /\ Top.fn = "output" /\ Top.pc = pc
In(fn, pc) == Running /\ Top.fn = fn /\ Top.pc = pc

\* one step of a lambda: new stack, new value tree, exception thrown
Exec(st, v, e) ==
    /\ stack' = (IF e = None THEN st ELSE stack)
    /\ vOutput' = v
    /\ err' = e
    /\ thrownAt' = (IF e = None THEN thrownAt ELSE Labels(stack))

\* faulty variant: drvPaths behaves like a set
EmplaceUnique(p) ==
    drvPaths' = (IF \E k \in 1..Len(drvPaths) : drvPaths[k] = [path |-> p, outputs |-> {}]
                 THEN drvPaths
                 ELSE Append(drvPaths, [path |-> p, outputs |-> {}]))

\* drvPaths.emplace_back(p)
EmplaceBack(p) ==
    drvPaths' = Append(drvPaths, WithOutputs(p))

cfg == <<build, nOutputs>>
iter == <<todo, nCalls, name, expected, sawBadSystem, wellFormed>>
coll == <<drvPaths>>
fin == <<phase, buildCalls, submitted>>

----------------------------------------------------------------------------
(* Initial state: the flake is evaluated and its `outputs` set is forced;  *)
(* the loop of enumerateOutputs is about to start.                         *)

\* The `outputs` sets of the runs: any output may come first; the outputs that
\* follow it are drawn from LaterNames (a collecting per-platform category, a
\* category without platforms, and an unknown name).
LaterNames == {"checks", "overlay", "foo"}

Manifests == {m \in SeqsUpTo(OutputNames, MaxOutputs) :
                 /\ Len(m) >= 1
                 /\ \A a, b \in 1..Len(m) : a # b => m[a] # m[b]
                 /\ \A a \in 2..Len(m) : m[a] \in LaterNames}

Init ==
    /\ build \in BOOLEAN
    /\ todo \in Manifests
    /\ nOutputs = Len(todo)
    /\ nCalls = 0
    /\ name = ""
    /\ vOutput = Str
    /\ stack = <<>>
    /\ ret = Src
    /\ drvPaths = <<>>
    /\ warnings = <<>>
    /\ err = None
    /\ thrownAt = <<>>
    /\ rejected = <<>>
    /\ phase = "eval"
    /\ buildCalls = 0
    /\ submitted = <<>>
    /\ expected = {}
    /\ sawBadSystem = FALSE
    /\ wellFormed = TRUE
    /\ hydra = [invoked |-> <<>>, visited |-> <<>>]

----------------------------------------------------------------------------
(* enumerateOutputs and the dispatch callback *)

Thrown(k, a) == IF k = "none" THEN None ELSE Error(k, a)

\* faulty variant: the loop steps over every second attribute
RestSkipping(q) == IF Len(q) > 1 THEN Tail(Tail(q)) ELSE Tail(q)

\* the range-for of enumerateOutputs: what is left after the attribute at the front
Rest(q) == Tail(q)

\* the loop of enumerateOutputs calls the callback on the next output
EnumerateOutputs ==
    /\ phase = "eval" /\ err = None /\ stack = <<>> /\ todo # <<>>
    /\ name' = Head(todo)
    /\ todo' = Rest(todo)
    /\ nCalls' = nCalls + 1
    /\ \E v \in Values(Head(todo)) :
         /\ vOutput' = v
         /\ expected' = expected \cup Declared(Head(todo), v)
         /\ sawBadSystem' = (sawBadSystem \/ BadSystem(Head(todo), v))
         /\ wellFormed' = (wellFormed /\ WellFormed(Head(todo), v))
    /\ stack' = <<Frame("output", <<Head(todo)>>, <<>>, "force")>>
    /\ hydra' = [invoked |-> <<>>, visited |-> <<>>]
    /\ ret' = Src
    /\ UNCHANGED <<cfg, coll, fin, warnings, err, thrownAt, rejected>>

\* faulty variant: the final else branch, with its warning, is missing
BranchWithoutWarning(n) ==
    IF n \in SystemCategories \cup NamedCategories THEN "attrs"
    ELSE IF n \in DirectCategories THEN "call"
    ELSE "end"

\* where the cascade of name comparisons leads
Branch(n) ==
    IF n \in SystemCategories \cup NamedCategories THEN "attrs"
    ELSE IF n \in DirectCategories THEN "call"
    ELSE "warn"

\* state->forceValue(vOutput, pos), first statement of the callback
ForceOutput ==
    /\ InOutput("force")
    /\ Exec(SetTop([Top EXCEPT !.pc = Branch(name)]), Bump(vOutput, <<>>),
            Thrown(ForceValue(vOutput), <<>>))
    /\ UNCHANGED <<cfg, iter, coll, fin, ret, warnings, rejected, hydra>>

\* state->forceAttrs(vOutput, pos) at the head of a per-platform or per-name branch
ForceOutputAttrs ==
    /\ InOutput("attrs")
    /\ Exec(SetTop([Top EXCEPT !.pc = "loop"]), Bump(vOutput, <<>>),
            Thrown(ForceAttrs(vOutput), <<>>))
    /\ UNCHANGED <<cfg, iter, coll, fin, ret, warnings, rejected, hydra>>

\* checkSystemName(attr.name, *attr.pos) on the next attribute of a per-platform output
CheckSystemNameStep ==
    /\ InOutput("loop") /\ name \in SystemCategories /\ Top.i <= Len(vOutput.attrs)
    /\ LET system == vOutput.attrs[Top.i].name
           bad == CheckSystemName(system)
       IN /\ Exec(SetTop([Top EXCEPT !.pc = "body"]), vOutput,
                  IF bad THEN Error("system", system) ELSE None)
          /\ rejected' = (IF bad THEN <<Top.i>> ELSE rejected)
    /\ UNCHANGED <<cfg, iter, coll, fin, ret, warnings, hydra>>

\* state->forceAttrs(*attr.value, *attr.pos) in checks, packages and apps
ForceSystemAttrs ==
    /\ InOutput("body") /\ name \in TwoLevel
    /\ Exec(SetTop([Top EXCEPT !.pc = "inner", !.j = 1]), Bump(vOutput, <<Top.i>>),
            Thrown(ForceAttrs(vOutput.attrs[Top.i].value), <<>>))
    /\ UNCHANGED <<cfg, iter, coll, fin, ret, warnings, rejected, hydra>>

\* the validator of an entry of category n
Validator(n) ==
    CASE n \in {"checks", "packages", "defaultPackage", "devShell"} -> "derivation"
      [] n \in {"apps", "defaultApp"} -> "app"
      [] n \in {"overlay", "overlays"} -> "overlay"
      [] n \in {"nixosModule", "nixosModules"} -> "module"
      [] n = "nixosConfigurations" -> "nixos"
      [] OTHER -> "hydra"

\* body of the loop in defaultPackage, devShell, defaultApp (one validator call)
\* and legacyPackages (nothing)
CallPerSystem ==
    /\ InOutput("body") /\ name \in SystemCategories \ TwoLevel
    /\ LET next == [Top EXCEPT !.pc = "loop", !.i = @ + 1]
           attr == vOutput.attrs[Top.i]
       IN Exec(IF name = "legacyPackages" THEN SetTop(next)
               ELSE Call(next, Frame(Validator(name), Fmt2(name, attr.name), <<Top.i>>, "start")),
               vOutput, None)
    /\ UNCHANGED <<cfg, iter, coll, fin, ret, warnings, rejected, hydra>>

\* the inner loop of checks, packages and apps: one validator call per attr2
CallPerEntry ==
    /\ InOutput("inner") /\ Top.j <= Len(vOutput.attrs[Top.i].value.attrs)
    /\ LET attr == vOutput.attrs[Top.i]
           attr2 == attr.value.attrs[Top.j]
           next == IF name = "checks" THEN [Top EXCEPT !.pc = "collect"]
                   ELSE [Top EXCEPT !.j = @ + 1]
       IN Exec(Call(next, Frame(Validator(name), Fmt3(name, attr.name, attr2.name),
                                <<Top.i, Top.j>>, "start")),
               vOutput, None)
    /\ UNCHANGED <<cfg, iter, coll, fin, ret, warnings, rejected, hydra>>

\* end of the inner loop: on to the next platform
NextSystem ==
    /\ InOutput("inner") /\ Top.j > Len(vOutput.attrs[Top.i].value.attrs)
    /\ Exec(SetTop([Top EXCEPT !.pc = "loop", !.i = @ + 1]), vOutput, None)
    /\ UNCHANGED <<cfg, iter, coll, fin, ret, warnings, rejected, hydra>>

\* faulty variant: checks of every platform are collected
CollectsCheckAnySystem(system) == TRUE

\* does the checks branch collect the derivation of an entry under this platform name?
CollectsCheck(system) == system = ThisSystem

\* checks: if attr.name == settings.thisSystem, drvPaths.emplace_back(drvPath)
CollectCheck ==
    /\ InOutput("collect")
    /\ IF CollectsCheck(vOutput.attrs[Top.i].name)
       THEN EmplaceBack(ret)
       ELSE UNCHANGED coll
    /\ Exec(SetTop([Top EXCEPT !.pc = "inner", !.j = @ + 1]), vOutput, None)
    /\ UNCHANGED <<cfg, iter, fin, ret, warnings, rejected, hydra>>

\* overlays, nixosModules, nixosConfigurations: one validator call per attribute
CallPerName ==
    /\ InOutput("loop") /\ name \in NamedCategories /\ Top.i <= Len(vOutput.attrs)
    /\ Exec(Call([Top EXCEPT !.i = @ + 1],
                 Frame(Validator(name), Fmt2(name, vOutput.attrs[Top.i].name), <<Top.i>>, "start")),
            vOutput, None)
    /\ UNCHANGED <<cfg, iter, coll, fin, ret, warnings, rejected, hydra>>

\* overlay, nixosModule, hydraJobs: the validator is called on the output itself
CallDirect ==
    /\ InOutput("call")
    /\ Exec(Call([Top EXCEPT !.pc = "end"], Frame(Validator(name), <<name>>, <<>>, "start")),
            vOutput, None)
    /\ UNCHANGED <<cfg, iter, coll, fin, ret, warnings, rejected, hydra>>

\* warn("unknown flake output '%s'", name)
WarnUnknown ==
    /\ InOutput("warn")
    /\ warnings' = Append(warnings, name)
    /\ Exec(SetTop([Top EXCEPT !.pc = "end"]), vOutput, None)
    /\ UNCHANGED <<cfg, iter, coll, fin, ret, rejected, hydra>>

\* the callback returns to the loop of enumerateOutputs
OutputReturn ==
    /\ Running /\ Top.fn = "output"
    /\ IF Top.pc = "loop" THEN Top.i > Len(vOutput.attrs) ELSE Top.pc = "end"
    /\ Exec(Pop, vOutput, None)
    /\ UNCHANGED <<cfg, iter, coll, fin, ret, warnings, rejected, hydra>>

----------------------------------------------------------------------------
(* The validators *)

\* faulty variant: the "is not a derivation" throw is missing
CheckDerivationWithoutThrow ==
    /\ In("derivation", "start")
    /\ LET v == NodeAt(vOutput, Top.ref)
           d == GetDerivation(v)
       IN /\ Exec(Pop, Bump(vOutput, Top.ref),
                  IF d.err # "none" THEN Error(d.err, <<>>) ELSE None)
          /\ ret' = (IF d.err = "none" /\ d.found THEN v.drvPath ELSE ret)
    /\ UNCHANGED <<cfg, iter, coll, fin, warnings, rejected, hydra>>

\* checkDerivation: getDerivation, "is not a derivation", return the drvPath
CheckDerivation ==
    /\ In("derivation", "start")
    /\ LET v == NodeAt(vOutput, Top.ref)
           d == GetDerivation(v)
       IN /\ Exec(Pop, Bump(vOutput, Top.ref),
                  IF d.err # "none" THEN Error(d.err, <<>>)
                  ELSE IF ~d.found THEN Error("notDrv", Top.attrPath)
                  ELSE None)
          /\ ret' = (IF d.err = "none" /\ d.found THEN v.drvPath ELSE ret)
    /\ UNCHANGED <<cfg, iter, coll, fin, warnings, rejected, hydra>>

\* checkApp: auto app = App(*state, v)
CheckApp ==
    /\ In("app", "start")
    /\ LET a == App(NodeAt(vOutput, Top.ref))
       IN Exec(SetTop([Top EXCEPT !.pc = "context", !.i = 1]), Bump(vOutput, Top.ref),
               Thrown(a.err, <<>>))
    /\ UNCHANGED <<cfg, iter, coll, fin, ret, warnings, rejected, hydra>>

\* does checkApp collect this element of the app's context?
CollectsContext(c) ==
    LET d == DecodeContext(c) IN d[2] # "" /\ PathIsDerivation(d[1])

\* checkApp: one iteration of the loop over app.context
AppContext ==
    /\ In("app", "context") /\ Top.i <= Len(NodeAt(vOutput, Top.ref).context)
    /\ LET c == NodeAt(vOutput, Top.ref).context[Top.i]
       IN IF CollectsContext(c)
          THEN EmplaceBack(DecodeContext(c)[1])
          ELSE UNCHANGED coll
    /\ Exec(SetTop([Top EXCEPT !.i = @ + 1]), vOutput, None)
    /\ UNCHANGED <<cfg, iter, fin, ret, warnings, rejected, hydra>>

\* checkApp returns
AppReturn ==
    /\ In("app", "context") /\ Top.i > Len(NodeAt(vOutput, Top.ref).context)
    /\ Exec(Pop, vOutput, None)
    /\ UNCHANGED <<cfg, iter, coll, fin, ret, warnings, rejected, hydra>>

\* checkOverlay
CheckOverlay ==
    /\ In("overlay", "start")
    /\ LET v == NodeAt(vOutput, Top.ref)
       IN Exec(Pop, Bump(vOutput, Top.ref),
               IF ForceValue(v) # "none" THEN Error(ForceValue(v), <<>>)
               ELSE IF v.kind # "lambda" \/ v.fun.matchAttrs \/ v.fun.arg # "final"
                    THEN Error("overlay", "final")
               ELSE IF v.fun.body # "lambda" \/ v.fun.bodyMatchAttrs \/ v.fun.bodyArg # "prev"
                    THEN Error("overlay", "prev")
               ELSE None)
    /\ UNCHANGED <<cfg, iter, coll, fin, ret, warnings, rejected, hydra>>

\* faulty variant: any function is taken for a module
CheckModuleAnyFunction ==
    /\ In("module", "start")
    /\ LET v == NodeAt(vOutput, Top.ref)
       IN Exec(IF v.kind = "attrs" THEN SetTop([Top EXCEPT !.pc = "options", !.i = 1]) ELSE Pop,
               Bump(vOutput, Top.ref),
               IF ForceValue(v) # "none" THEN Error(ForceValue(v), <<>>)
               ELSE IF v.kind \in {"lambda", "attrs"} THEN None
               ELSE Error("module", "shape"))
    /\ UNCHANGED <<cfg, iter, coll, fin, ret, warnings, rejected, hydra>>

\* checkModule: force the value; a function is judged at once, a set goes to the loop
CheckModule ==
    /\ In("module", "start")
    /\ LET v == NodeAt(vOutput, Top.ref)
       IN Exec(IF v.kind = "attrs" THEN SetTop([Top EXCEPT !.pc = "options", !.i = 1]) ELSE Pop,
               Bump(vOutput, Top.ref),
               IF ForceValue(v) # "none" THEN Error(ForceValue(v), <<>>)
               ELSE IF v.kind = "lambda"
                    THEN (IF ~v.fun.matchAttrs \/ ~v.fun.ellipsis
                          THEN Error("module", "open") ELSE None)
               ELSE IF v.kind = "attrs" THEN None
               ELSE Error("module", "shape"))
    /\ UNCHANGED <<cfg, iter, coll, fin, ret, warnings, rejected, hydra>>

\* checkModule: state->forceValue(*attr.value) on the next attribute; its own catch
\* block adds the "while evaluating the option" prefix before the error leaves the loop
ModuleOption ==
    /\ In("module", "options") /\ Top.i <= Len(NodeAt(vOutput, Top.ref).attrs)
    /\ LET attr == NodeAt(vOutput, Top.ref).attrs[Top.i]
       IN Exec(SetTop([Top EXCEPT !.i = @ + 1]), Bump(vOutput, Top.ref \o <<Top.i>>),
               IF ForceValue(attr.value) # "none"
               THEN [Error(ForceValue(attr.value), <<>>) EXCEPT
                        !.frames = <<[fn |-> "option", attrPath |-> <<attr.name>>]>>]
               ELSE None)
    /\ UNCHANGED <<cfg, iter, coll, fin, ret, warnings, rejected, hydra>>

\* checkModule returns
ModuleReturn ==
    /\ In("module", "options") /\ Top.i > Len(NodeAt(vOutput, Top.ref).attrs)
    /\ Exec(Pop, vOutput, None)
    /\ UNCHANGED <<cfg, iter, coll, fin, ret, warnings, rejected, hydra>>

\* checkNixOSConfiguration
CheckNixOSConfiguration ==
    /\ In("nixos", "start")
    /\ LET w == FindAlongAttrPath(vOutput, Top.ref, ToplevelPath)
           top == NodeAt(vOutput, w.ref)
           found == w.err = "none"
       IN Exec(Pop,
               BumpAll(vOutput, IF found THEN Append(w.forced, w.ref) ELSE w.forced),
               IF ~found THEN Error(w.err, <<>>)
               ELSE IF ForceAttrs(top) # "none" THEN Error(ForceAttrs(top), <<>>)
               ELSE IF ~IsDerivation(top) THEN Error("toplevel", <<>>)
               ELSE None)
    /\ UNCHANGED <<cfg, iter, coll, fin, ret, warnings, rejected, hydra>>

\* checkHydraJobs, up to the loop: forceAttrs(v), "jobset should not be a derivation"
CheckHydraJobs ==
    /\ In("hydra", "start")
    /\ LET v == NodeAt(vOutput, Top.ref)
       IN Exec(SetTop([Top EXCEPT !.pc = "jobs", !.i = 1]), Bump(vOutput, Top.ref),
               IF ForceAttrs(v) # "none" THEN Error(ForceAttrs(v), <<>>)
               ELSE IF IsDerivation(v) THEN Error("jobset", <<>>)
               ELSE None)
    /\ hydra' = [hydra EXCEPT !.invoked = Append(@, Top.ref)]
    /\ UNCHANGED <<cfg, iter, coll, fin, ret, warnings, rejected>>

\* faulty variant: the isDerivation test before the recursive call is missing
RecursesAlways(v) == TRUE

\* does checkHydraJobs call itself on this (forced) attribute value?
Recurses(v) == ~IsDerivation(v)

\* checkHydraJobs: one iteration of the loop (forceAttrs on the job, recursion unless
\* it is a derivation)
HydraJob ==
    /\ In("hydra", "jobs") /\ Top.i <= Len(NodeAt(vOutput, Top.ref).attrs)
    /\ LET attr == NodeAt(vOutput, Top.ref).attrs[Top.i]
           next == [Top EXCEPT !.i = @ + 1]
       IN Exec(IF Recurses(attr.value)
               THEN Call(next, Frame("hydra", Top.attrPath \o <<".", attr.name>>,
                                     Top.ref \o <<Top.i>>, "start"))
               ELSE SetTop(next),
               Bump(vOutput, Top.ref \o <<Top.i>>),
               Thrown(ForceAttrs(attr.value), <<>>))
    /\ hydra' = [hydra EXCEPT !.visited = Append(@, Top.ref \o <<Top.i>>)]
    /\ UNCHANGED <<cfg, iter, coll, fin, ret, warnings, rejected>>

\* checkHydraJobs returns
HydraReturn ==
    /\ In("hydra", "jobs") /\ Top.i > Len(NodeAt(vOutput, Top.ref).attrs)
    /\ Exec(Pop, vOutput, None)
    /\ UNCHANGED <<cfg, iter, coll, fin, ret, warnings, rejected, hydra>>

----------------------------------------------------------------------------
(* Exceptions and the end of the run *)

\* faulty variant: the prefix is put after the ones already there
UnwindAppending ==
    /\ phase = "eval" /\ err # None /\ stack # <<>>
    /\ err' = [err EXCEPT !.frames = @ \o <<Label(Top)>>]
    /\ stack' = Pop
    /\ UNCHANGED <<cfg, iter, coll, fin, ret, warnings, rejected, hydra, vOutput,
                   thrownAt>>

\* catch (Error & e) { e.addPrefix(...); throw; } of the innermost active lambda
Unwind ==
    /\ phase = "eval" /\ err # None /\ stack # <<>>
    /\ err' = [err EXCEPT !.frames = <<Label(Top)>> \o @]
    /\ stack' = Pop
    /\ UNCHANGED <<cfg, iter, coll, fin, ret, warnings, rejected, hydra, vOutput,
                   thrownAt>>

\* the exception leaves run()
Propagate ==
    /\ phase = "eval" /\ err # None /\ stack = <<>>
    /\ phase' = "failed"
    /\ UNCHANGED <<cfg, iter, coll, ret, warnings, rejected, hydra, vOutput,
                   thrownAt, err, stack, buildCalls, submitted>>

\* faulty variant: the --no-build flag is ignored
BuildWantedIgnoringFlag == drvPaths # <<>>

\* if (build && !drvPaths.empty())
BuildWanted == build /\ drvPaths # <<>>

\* faulty variant: the call takes the elements out of drvPaths
BuildPathsDraining ==
    /\ phase = "eval" /\ err = None /\ stack = <<>> /\ todo = <<>>
    /\ BuildWanted
    /\ buildCalls' = buildCalls + 1
    /\ submitted' = drvPaths
    /\ drvPaths' = <<>>
    /\ phase' = "done"
    /\ UNCHANGED <<cfg, iter, ret, warnings, rejected, hydra, vOutput,
                   thrownAt, err, stack>>

\* store->buildPaths(drvPaths)
BuildPaths ==
    /\ phase = "eval" /\ err = None /\ stack = <<>> /\ todo = <<>>
    /\ BuildWanted
    /\ buildCalls' = buildCalls + 1
    /\ submitted' = drvPaths
    /\ phase' = "done"
    /\ UNCHANGED <<cfg, iter, coll, ret, warnings, rejected, hydra, vOutput,
                   thrownAt, err, stack>>

\* run() returns without building
NoBuild ==
    /\ phase = "eval" /\ err = None /\ stack = <<>> /\ todo = <<>>
    /\ ~BuildWanted
    /\ phase' = "done"
    /\ UNCHANGED <<cfg, iter, coll, ret, warnings, rejected, hydra, vOutput,
                   thrownAt, err, stack, buildCalls, submitted>>

Next ==
    \/ EnumerateOutputs
    \/ ForceOutput
    \/ ForceOutputAttrs
    \/ CheckSystemNameStep
    \/ ForceSystemAttrs
    \/ CallPerSystem
    \/ CallPerEntry
    \/ NextSystem
    \/ CollectCheck
    \/ CallPerName
    \/ CallDirect
    \/ WarnUnknown
    \/ OutputReturn
    \/ CheckDerivation
    \/ CheckApp
    \/ AppContext
    \/ AppReturn
    \/ CheckOverlay
    \/ CheckModule
    \/ ModuleOption
    \/ ModuleReturn
    \/ CheckNixOSConfiguration
    \/ CheckHydraJobs
    \/ HydraJob
    \/ HydraReturn
    \/ Unwind
    \/ Propagate
    \/ BuildPaths
    \/ NoBuild

Spec == Init /\ [][Next]_vars

TypeOK ==
    /\ phase \in {"eval", "done", "failed"}
    /\ nCalls \in 0..nOutputs
    /\ buildCalls \in 0..1

----------------------------------------------------------------------------
(* Vocabulary of the properties *)

Terminal == phase \in {"done", "failed"}

\* the callback has returned normally for the output `name`
Returned == err = None /\ stack = <<>> /\ nCalls > 0

\* number of force operations applied to a value and everything below it
RECURSIVE Forces(_), ForcesAll(_)
Forces(t) == t.nf + ForcesAll(t.attrs)
ForcesAll(as) == IF as = <<>> THEN 0 ELSE Forces(as[1].value) + ForcesAll(Tail(as))

\* a per-platform attribute that its category's loop gets through without an error
GoodEntry(n, a) ==
    /\ HasDash(a.name)
    /\ CASE n \in {"checks", "packages"} -> a.value.kind = "attrs" /\ Each(a.value, IsDrvValue)
         [] n = "apps" -> a.value.kind = "attrs" /\ Each(a.value, IsAppValue)
         [] n \in {"defaultPackage", "devShell"} -> IsDrvValue(a.value)
         [] n = "defaultApp" -> IsAppValue(a.value)
         [] OTHER -> TRUE

BadNames(v) == {v.attrs[k].name : k \in {q \in 1..Len(v.attrs) : ~HasDash(v.attrs[q].name)}}

OutputLabel == [fn |-> "output", attrPath |-> <<name>>]

IsPrefix(a, b) == Len(a) <= Len(b) /\ SubSeq(b, 1, Len(a)) = a

----------------------------------------------------------------------------
(* C1: store->buildPaths is called at most once; it is called exactly when *)
(* build is set, the walk over the outputs ended without an error and      *)
(* drvPaths is not empty; the call comes after the last validator (nothing *)
(* is active or left to do); a failed run and a --no-build run never call  *)
(* it, whatever was collected.                                             *)
C1_BuildTrigger ==
    /\ buildCalls <= 1
    /\ buildCalls = 1 =>
          /\ build /\ err = None /\ drvPaths # <<>> /\ submitted = drvPaths
          /\ phase = "done" /\ stack = <<>> /\ todo = <<>> /\ nCalls = nOutputs
    /\ (phase = "done" /\ build /\ drvPaths # <<>>) => buildCalls = 1
    /\ err # None => buildCalls = 0
    /\ phase = "failed" => buildCalls = 0 /\ submitted = <<>>
    /\ ~build => buildCalls = 0

\* a failed run that had already collected targets from an earlier output
C1_Witness == phase = "failed" /\ build /\ drvPaths # <<>> /\ nCalls = 2 /\ buildCalls = 0

(* C2: a run over well-formed outputs of recognized categories does not    *)
(* fail, and at its end drvPaths holds exactly the derivations of          *)
(* checks.<this system>.* and the derivation outputs in the contexts of    *)
(* all apps.*.* and defaultApp.* (whatever their platform).                *)
C2_Collector ==
    /\ wellFormed => err = None /\ phase # "failed"
    /\ (phase = "done" /\ wellFormed) => Range(drvPaths) = expected

C2_Witness ==
    /\ phase = "done" /\ wellFormed /\ nCalls = 2
    /\ expected = {WithOutputs(D1), WithOutputs(D2)}
    /\ name = "checks"

(* C3: once a validator has thrown, the run fails with that error: no      *)
(* further output is handed to the callback, no value is forced, nothing   *)
(* is added to drvPaths, no warning is issued, nothing is built, and the   *)
(* error keeps its kind and argument while it unwinds.                     *)
C3_FailFast ==
    [][err # None =>
         /\ nCalls' = nCalls /\ todo' = todo /\ name' = name
         /\ vOutput' = vOutput
         /\ drvPaths' = drvPaths
         /\ warnings' = warnings
         /\ buildCalls' = buildCalls
         /\ err' # None /\ err'.kind = err.kind /\ err'.arg = err.arg
         /\ phase' # "done"]_vars

\* a failure two validators deep, with outputs still to go
C3_Witness == phase = "failed" /\ todo # <<>> /\ Len(err.frames) >= 3

(* C4 as stated: in the seven per-platform categories an attribute name    *)
(* without '-' always makes the run fail with the "not a valid system      *)
(* type" error naming that string, and nothing under the name is forced.   *)
C4_AsStated ==
    (Terminal /\ BadSystem(name, vOutput)) =>
        /\ phase = "failed" /\ err.kind = "system" /\ err.arg \in BadNames(vOutput)
        /\ \A k \in 1..Len(vOutput.attrs) :
              ~HasDash(vOutput.attrs[k].name) => Forces(vOutput.attrs[k].value) = 0

(* C4 amended: a platform name without '-' always makes the run fail and   *)
(* nothing under it is ever forced; the failure is the "not a valid system *)
(* type" error naming that string whenever every attribute before it in    *)
(* its output gets through its loop body (otherwise the run has already    *)
(* failed on that earlier attribute); checkSystemName rejects only names   *)
(* without '-'.                                                            *)
C4_PlatformGuard ==
    /\ phase = "done" => ~sawBadSystem
    /\ (Returned /\ name \in SystemCategories) => BadNames(vOutput) = {}
    /\ (nCalls > 0 /\ name \in SystemCategories) =>
          \A k \in 1..Len(vOutput.attrs) :
              ~HasDash(vOutput.attrs[k].name) => Forces(vOutput.attrs[k].value) = 0
    /\ (phase = "failed" /\ name \in SystemCategories) =>
          \A k \in 1..Len(vOutput.attrs) :
              (/\ ~HasDash(vOutput.attrs[k].name)
               /\ \A m \in 1..(k - 1) : GoodEntry(name, vOutput.attrs[m]))
              => /\ err.kind = "system" /\ err.arg = vOutput.attrs[k].name
                 /\ rejected = <<k>>
                 /\ err.frames = <<OutputLabel>>
    /\ rejected # <<>> =>
          /\ err # None /\ err.kind = "system"
          /\ err.arg = vOutput.attrs[rejected[1]].name
          /\ ~HasDash(err.arg)

\* the guard rejects the second platform of an output after the first went through
C4_Witness ==
    /\ phase = "failed" /\ rejected = <<2>> /\ name = "checks"
    /\ Forces(vOutput.attrs[1].value) > 0

(* C5 as stated: an output with an unrecognized name never makes the run   *)
(* fail, whatever its value, a value whose evaluation fails included.      *)
C5_AsStated == phase = "failed" => name \in Categories

(* C5 amended: the callback forces every output before it looks at the     *)
(* name.  An output with an unrecognized name whose value evaluates gets   *)
(* one warning naming it and the walk goes on; if its evaluation fails,    *)
(* the run fails with that evaluation error, prefixed with the output's    *)
(* frame only.  Warnings are issued for unrecognized names only.           *)
C5_UnknownOutput ==
    /\ (Returned /\ name \notin Categories) =>
          /\ warnings # <<>> /\ warnings[Len(warnings)] = name
          /\ vOutput.kind # "fail" /\ vOutput.nf = 1
    /\ (err # None /\ name \notin Categories) =>
          /\ err.kind = "eval" /\ vOutput.kind = "fail"
          /\ \A k \in 1..Len(warnings) : warnings[k] # name
          /\ phase = "failed" => err.frames = <<OutputLabel>>
    /\ \A k \in 1..Len(warnings) : warnings[k] \notin Categories
    /\ Len(warnings) <= nCalls

\* the walk went on to a recognized output after warning about an unknown one
C5_Witness == phase = "done" /\ warnings = <<"foo">> /\ name \in Categories /\ nCalls = 2

(* C6 as stated: drvPaths never holds the same descriptor twice.           *)
C6_AsStated ==
    \A a, b \in 1..Len(drvPaths) : a # b => drvPaths[a] # drvPaths[b]

\* the step about to be taken inserts p: a check of this platform, or a derivation
\* output in an app's context
InsertsCheck == InOutput("collect") /\ vOutput.attrs[Top.i].name = ThisSystem
InsertsContext ==
    /\ In("app", "context") /\ Top.i <= Len(NodeAt(vOutput, Top.ref).context)
    /\ IsTarget(NodeAt(vOutput, Top.ref).context[Top.i])

(* C6 amended: drvPaths is a vector.  Every insertion appends one element, *)
(* also when the descriptor is already there, so a descriptor occurs once  *)
(* per insertion; no other step changes drvPaths, and buildPaths receives  *)
(* the vector as it is, repetitions included.                              *)
C6_Vector ==
    /\ [][/\ InsertsCheck => drvPaths' = Append(drvPaths, WithOutputs(ret))
          /\ InsertsContext =>
                drvPaths' = Append(drvPaths,
                    WithOutputs(NodeAt(vOutput, Top.ref).context[Top.i].path))
          /\ ~(InsertsCheck \/ InsertsContext) => drvPaths' = drvPaths
          /\ buildCalls' # buildCalls => submitted' = drvPaths]_vars
    /\ [](buildCalls = 1 => submitted = drvPaths)

\* the same derivation, collected from an app and from a check, is submitted twice
C6_Witness ==
    /\ buildCalls = 1 /\ Len(submitted) = 2 /\ submitted[1] = submitted[2]
    /\ nCalls = 2 /\ name = "checks"

\* positions <<k, m>> of the checks.<platform>.<name> values that evaluate to
\* something that is not a derivation
NotATarget(v) ==
    {km \in UNION {{<<k, m>> : m \in 1..Len(v.attrs[k].value.attrs)} : k \in 1..Len(v.attrs)} :
        LET x == v.attrs[km[1]].value.attrs[km[2]].value
        IN x.kind # "fail" /\ ~IsDrvValue(x)}

CheckPath(v, km) ==
    Fmt3("checks", v.attrs[km[1]].name, v.attrs[km[1]].value.attrs[km[2]].name)

\* nothing before position <<k, m>> of `checks` stops the walk
FirstFailure(v, km) ==
    /\ \A k \in 1..km[1] : HasDash(v.attrs[k].name) /\ v.attrs[k].value.kind = "attrs"
    /\ \A k \in 1..(km[1] - 1) : Each(v.attrs[k].value, IsDrvValue)
    /\ \A m \in 1..(km[2] - 1) : IsDrvValue(v.attrs[km[1]].value.attrs[m].value)

(* C7 as stated: if some checks.<platform>.<name> is not a derivation, the *)
(* run fails with the "is not a derivation" error of such an entry, with   *)
(* checks.<platform>.<name> as its path.                                   *)
C7_AsStated ==
    (Terminal /\ name = "checks" /\ NotATarget(vOutput) # {}) =>
        /\ phase = "failed" /\ err.kind = "notDrv"
        /\ \E km \in NotATarget(vOutput) : err.arg = CheckPath(vOutput, km)

(* C7 amended: if some checks.<platform>.<name> is not a derivation the    *)
(* run fails, on every platform, the current one or not; when nothing      *)
(* before that entry in `checks` stops the walk (platform names have a     *)
(* '-', platform values are sets, earlier entries are derivations) the     *)
(* error is "is not a derivation" for checks.<platform>.<name>, prefixed   *)
(* with the frames of the output and of that derivation check.             *)
C7_NotDerivation ==
    /\ (Returned /\ name = "checks") => NotATarget(vOutput) = {}
    /\ (Terminal /\ name = "checks" /\ NotATarget(vOutput) # {}) => phase = "failed"
    /\ (phase = "failed" /\ name = "checks") =>
          \A km \in NotATarget(vOutput) :
              FirstFailure(vOutput, km) =>
                  /\ err.kind = "notDrv" /\ err.arg = CheckPath(vOutput, km)
                  /\ err.frames = <<OutputLabel,
                                    [fn |-> "derivation", attrPath |-> CheckPath(vOutput, km)]>>
    /\ (err # None /\ err.kind = "notDrv" /\ name = "checks") =>
          \E km \in NotATarget(vOutput) : err.arg = CheckPath(vOutput, km)

\* a non-derivation under a platform other than the current one, after an accepted sibling
C7_Witness ==
    /\ phase = "failed" /\ name = "checks" /\ err.kind = "notDrv"
    /\ err.arg = Fmt3("checks", "a-d", "v")

(* C8 as stated: the prefixes of the final error are exactly the labels of *)
(* the validator invocations active when it was thrown, outermost first.   *)
C8_AsStated == phase = "failed" => err.frames = thrownAt

\* frames of validator invocations (not of the per-option try block of checkModule)
Invocations(fs) == SelectSeq(fs, LAMBDA f : f.fn # "option")

(* C8 amended: the prefixes of the final error are, outermost first, one   *)
(* per lambda invocation active when it was thrown, followed by the        *)
(* "while evaluating the option" prefix when the failure is the forcing of *)
(* an attribute of a module set; the first is the output's, each path      *)
(* extends the one before, and no invocation is left on the stack when     *)
(* the run ends, failed or not.                                            *)
C8_ContextFrames ==
    /\ phase = "failed" =>
          /\ Invocations(err.frames) = thrownAt
          /\ err.frames[1] = OutputLabel
          /\ \A k \in 1..Len(err.frames) :
                /\ err.frames[k].fn = "option" =>
                      k = Len(err.frames) /\ k > 1 /\ err.frames[k - 1].fn = "module"
                /\ (k > 1 /\ err.frames[k].fn # "option") =>
                      IsPrefix(err.frames[k - 1].attrPath, err.frames[k].attrPath)
                /\ (k > 1 /\ err.frames[k].fn = "hydra" /\ err.frames[k - 1].fn = "hydra") =>
                      Len(err.frames[k].attrPath) = Len(err.frames[k - 1].attrPath) + 2
    /\ Terminal => stack = <<>>
    /\ (err # None /\ phase = "eval") =>
          Invocations(err.frames) = SubSeq(thrownAt, Len(stack) + 1, Len(thrownAt))

\* a failure three job sets deep
C8_Witness ==
    /\ phase = "failed" /\ Len(err.frames) = 4
    /\ err.frames[4] = [fn |-> "hydra", attrPath |-> <<"hydraJobs", ".", "u", ".", "u">>]

(* C9: the callback is invoked once per attribute of `outputs`, on the     *)
(* first attribute not yet visited, so in the set's iteration order; none  *)
(* is skipped or visited twice, and a run without failure has visited      *)
(* them all before it ends.                                                *)
C9_Dispatch ==
    /\ [](nCalls + Len(todo) = nOutputs)
    /\ [](phase = "done" => nCalls = nOutputs /\ todo = <<>>)
    /\ [][nCalls' # nCalls =>
            /\ nCalls' = nCalls + 1 /\ todo # <<>>
            /\ name' = Head(todo) /\ todo' = Tail(todo)
            /\ stack = <<>> /\ stack' = <<[fn |-> "output", attrPath |-> <<name'>>, ref |-> <<>>,
                                           pc |-> "force", i |-> 1, j |-> 1]>>]_vars
    /\ [][todo' # todo => nCalls' # nCalls]_vars

C9_Witness == phase = "done" /\ nCalls = 2 /\ nOutputs = 2 /\ warnings = <<>>

\* positions of the jobs of a job tree: every value reached without entering a derivation
RECURSIVE Jobs(_, _)
Jobs(t, r) ==
    {r} \cup (IF PlainSet(NodeAt(t, r))
              THEN UNION {Jobs(t, r \o <<k>>) : k \in 1..Len(NodeAt(t, r).attrs)}
              ELSE {})
JobSets(t) == {r \in Jobs(t, <<>>) : PlainSet(NodeAt(t, r))}

NoRepeat(q) == \A a, b \in 1..Len(q) : a # b => q[a] # q[b]

(* C10: hydraJobs that is itself a derivation always fails ("jobset should *)
(* not be a derivation"); on a tree of job sets whose leaves are           *)
(* derivations checkHydraJobs succeeds, is invoked exactly once per job    *)
(* set (the top one included), never on a leaf derivation, and its loops   *)
(* visit every value below the top exactly once.                           *)
C10_HydraJobs ==
    name = "hydraJobs" =>
       /\ (Terminal /\ IsDrvValue(vOutput)) => phase = "failed" /\ err.kind = "jobset"
       /\ Returned => ~IsDrvValue(vOutput)
       /\ NoRepeat(hydra.invoked) /\ NoRepeat(hydra.visited)
       /\ \A k \in 1..Len(hydra.invoked) : ~IsDrvValue(NodeAt(vOutput, hydra.invoked[k]))
                                           \/ hydra.invoked[k] = <<>>
       /\ GoodJobs(vOutput) =>
             /\ err = None
             /\ Range(hydra.invoked) \subseteq JobSets(vOutput)
             /\ Range(hydra.visited) \subseteq Jobs(vOutput, <<>>) \ {<<>>}
             /\ Returned =>
                   /\ Range(hydra.invoked) = JobSets(vOutput)
                   /\ Range(hydra.visited) = Jobs(vOutput, <<>>) \ {<<>>}

\* two leaves, one of them two job sets deep
C10_Witness ==
    /\ name = "hydraJobs" /\ Returned /\ GoodJobs(vOutput)
    /\ Len(hydra.invoked) = 2 /\ Len(hydra.visited) = 3
    /\ IsDrvValue(NodeAt(vOutput, <<1, 1>>))

\* positions of the modules of the output, in the order they are checked
ModuleRefs ==
    IF name = "nixosModule" THEN << <<>> >> ELSE [k \in 1..Len(vOutput.attrs) |-> <<k>>]
ModulePath(r) == IF r = <<>> THEN <<name>> ELSE Fmt2(name, vOutput.attrs[r[1]].name)

\* force operations a checked module has received itself: one by checkModule, and
\* for nixosModule the one of the callback before it
OwnForces(r) == IF r = <<>> THEN 2 ELSE 1

Untouched(v) == Forces(v) = 0
ForcedOnce(v) == v.nf = 1 /\ ForcesAll(v.attrs) = 0

\* index of the first attribute whose value fails to evaluate, 0 if there is none
FirstFailing(m) ==
    IF \E k \in 1..Len(m.attrs) : ~Evaluates(m.attrs[k].value)
    THEN CHOOSE k \in 1..Len(m.attrs) :
            /\ ~Evaluates(m.attrs[k].value)
            /\ \A i \in 1..(k - 1) : Evaluates(m.attrs[i].value)
    ELSE 0

\* checkModule went through the module at r and returned
Passed(r) ==
    LET m == NodeAt(vOutput, r)
    IN /\ GoodModule(m) /\ m.nf = OwnForces(r)
       /\ \A k \in 1..Len(m.attrs) : ForcedOnce(m.attrs[k].value)

\* checkModule threw on the module at r, and err is what it threw
Refused(r) ==
    LET m == NodeAt(vOutput, r)
        k == FirstFailing(m)
        here == <<OutputLabel, [fn |-> "module", attrPath |-> ModulePath(r)]>>
    IN /\ ~GoodModule(m) /\ m.nf = OwnForces(r)
       /\ CASE m.kind = "fail" -> err.kind = "eval" /\ (phase = "failed" => err.frames = here)
            [] m.kind = "lambda" ->
                 /\ err.kind = "module" /\ err.arg = "open"
                 /\ phase = "failed" => err.frames = here
            [] m.kind = "attrs" ->
                 /\ k > 0 /\ err.kind = "eval"
                 /\ \A i \in 1..(k - 1) : ForcedOnce(m.attrs[i].value)
                 /\ ForcedOnce(m.attrs[k].value)
                 /\ \A i \in (k + 1)..Len(m.attrs) : Untouched(m.attrs[i].value)
                 /\ phase = "failed" =>
                       err.frames = Append(here, [fn |-> "option",
                                                  attrPath |-> <<m.attrs[k].name>>])
            [] OTHER ->
                 /\ err.kind = "module" /\ err.arg = "shape"
                 /\ phase = "failed" => err.frames = here

\* the callback gets as far as calling checkModule
ReachesModules ==
    \/ name = "nixosModule" /\ Evaluates(vOutput)
    \/ name = "nixosModules" /\ vOutput.kind = "attrs"

(* C11: checkModule, called on nixosModule and on every value of           *)
(* nixosModules, accepts a function exactly when it has a formals pattern  *)
(* with an ellipsis; of a set it forces the values in order, each once,    *)
(* and stops at the first that fails, whose error carries the "while       *)
(* evaluating the option" prefix inside the "while checking the NixOS      *)
(* module" prefix; a set whose values all evaluate is accepted whatever    *)
(* they are, nothing below them being forced; a value that is neither a    *)
(* function nor a set is refused.                                          *)
C11_ModuleValidator ==
    ReachesModules =>
       LET rs == ModuleRefs
       IN /\ \A a \in 1..Len(rs) :
                LET m == NodeAt(vOutput, rs[a])
                IN /\ m.nf \in 0..OwnForces(rs[a])
                   /\ \A j \in 1..Len(m.attrs) :
                         /\ m.attrs[j].value.nf <= 1 /\ ForcesAll(m.attrs[j].value.attrs) = 0
                         /\ m.attrs[j].value.nf = 1 =>
                               /\ m.kind = "attrs" /\ m.nf = OwnForces(rs[a])
                               /\ \A i \in 1..(j - 1) : /\ ForcedOnce(m.attrs[i].value)
                                                        /\ Evaluates(m.attrs[i].value)
                   /\ m.nf = OwnForces(rs[a]) => \A b \in 1..(a - 1) : Passed(rs[b])
          /\ err # None =>
                \E a \in 1..Len(rs) :
                   /\ Refused(rs[a])
                   /\ \A b \in 1..(a - 1) : Passed(rs[b])
                   /\ \A b \in (a + 1)..Len(rs) : Untouched(NodeAt(vOutput, rs[b]))
          /\ Returned => \A a \in 1..Len(rs) : Passed(rs[a])
          /\ (\A a \in 1..Len(rs) : GoodModule(NodeAt(vOutput, rs[a]))) => err = None

\* the second option of the second module fails after a module and an option passed
C11_Witness ==
    /\ phase = "failed" /\ name = "nixosModules" /\ err.kind = "eval"
    /\ err.frames = <<OutputLabel,
                      [fn |-> "module", attrPath |-> Fmt2("nixosModules", "v")],
                      [fn |-> "option", attrPath |-> <<"v">>]>>
    /\ Passed(<<1>>) /\ NodeAt(vOutput, <<1>>).kind = "attrs"

\* the outputs whose branch of the callback, or whose validator, inserts into drvPaths
Collecting == {"checks", "apps", "defaultApp"}

(* C12: while the outputs are walked drvPaths only grows at its end, one   *)
(* element per step, and only while the output being checked is checks,    *)
(* apps or defaultApp; during every other output, recognized or not, and   *)
(* between outputs it stays as it is, whatever is validated; the call of   *)
(* store->buildPaths leaves it as it found it, and nothing changes it      *)
(* after the run has ended.                                                *)
C12_AppendOnly ==
    [][/\ IsPrefix(drvPaths, drvPaths') /\ Len(drvPaths') <= Len(drvPaths) + 1
       /\ drvPaths' # drvPaths =>
             /\ name \in Collecting /\ name' = name /\ nCalls' = nCalls
             /\ phase = "eval" /\ phase' = "eval" /\ stack # <<>> /\ err = None
       /\ (name \notin Collecting \/ name' # name) => drvPaths' = drvPaths
       /\ (buildCalls' # buildCalls \/ phase' # phase \/ Terminal) => drvPaths' = drvPaths]_vars

\* what an earlier output collected is still there after an overlay was validated,
\* and after it was handed to store->buildPaths
C12_Witness ==
    /\ phase = "done" /\ nCalls = 2 /\ name = "overlay" /\ warnings = <<>>
    /\ buildCalls = 1 /\ Len(drvPaths) = 2 /\ submitted = drvPaths

====
